---- MODULE Spec2Model ----
(***************************************************************************)
(* A model of the homotopy continuation engine:                            *)
(*   - PredictorCorrectorMethod.trace / EulerNewton (predictor_corrector.py)*)
(*   - SimpleCorrectorConvCriterion, SimpleTracerConvCriterion and         *)
(*     SchmittTriggerHomotopyTrack (schmitt_trigger.py)                    *)
(*   - ConstantStep (stepadj.py)                                           *)
(*   - AutoHomotopyTrack and its kernel extractor (autohomotopy.py)        *)
(*                                                                         *)
(* Numbers.  Floating point values are modelled by exact extended          *)
(* rationals <<n, d>>: d > 0 is the rational n/d in lowest terms,          *)
(* <<1, 0>> is +inf, <<-1, 0>> is -inf and <<0, 0>> is nan, with the IEEE  *)
(* rules numpy applies to them (x/0 is inf or nan, never an exception).    *)
(* A vector divided by its norm is kept as [dir, nsq]: the vector          *)
(* dir / sqrt(nsq), because the square root is not rational.               *)
(***************************************************************************)
EXTENDS Integers, Sequences, FiniteSets, TLC

VARIABLES
    pc,         \* position of the running trace() call, "idle" when none runs
    track,      \* the track handed to the running trace(): "schmitt" or "auto"
    point,      \* trace(): local variable point
    estimate,   \* trace(): local variable estimate
    last,       \* outcome of the last finished top-level call
    tracer,     \* the SimpleTracerConvCriterion: tol, maxiters, _iter, sol_arc
    corrector,  \* the SimpleCorrectorConvCriterion: tol, maxiters, _iter
    stepadj,    \* the ConstantStep: h
    schmitt,    \* the SchmittTriggerHomotopyTrack: k, _prev_tan
    auto,       \* the AutoHomotopyTrack: its attribute dictionary
    hist,       \* history (ghost) variables, read by the properties only
    ker_mat,    \* the Jacobian handed to the kernel extractor
    ker_out     \* what the kernel extractor gave back

vars == <<pc, track, point, estimate, last, tracer, corrector, stepadj,
          schmitt, auto, hist, ker_mat, ker_out>>

----------------------------------------------------------------------------
(* Bounds of the model *)

\* largest maxiters a criterion is constructed with
MaxIters == 1
\* Jacobian entries are drawn from -MaxEntry .. MaxEntry
MaxEntry == 1
\* the kernel extractor is fed n x (n+1) Jacobians, n in Dims (1 x 2 is the
\* shape of the Schmitt trigger's gradient, 2 x 3 the first with elimination)
Dims == {1, 2}

----------------------------------------------------------------------------
(* Extended rational arithmetic (numpy float64 semantics, exact)           *)

Abs(x) == IF x < 0 THEN -x ELSE x

Sign(x) == IF x > 0 THEN 1 ELSE IF x < 0 THEN -1 ELSE 0

RECURSIVE GCD(_, _)
GCD(a, b) == IF b = 0 THEN a ELSE GCD(b, a % b)

\* the value n/d as a float: lowest terms, inf and nan for d = 0
Q(n, d) ==
    IF d = 0 THEN <<Sign(n), 0>>
    ELSE LET s == IF d < 0 THEN -1 ELSE 1
             g == GCD(Abs(n), Abs(d))
         IN  <<(s * n) \div g, (s * d) \div g>>

Zero == <<0, 1>>
One == <<1, 1>>
NaN == <<0, 0>>

IsNaN(a) == a = NaN
IsInf(a) == a[2] = 0 /\ a[1] # 0
IsFinite(a) == a[2] > 0

QNeg(a) == <<-a[1], a[2]>>

QMul(a, b) == Q(a[1] * b[1], a[2] * b[2])

QAdd(a, b) ==
    IF IsNaN(a) \/ IsNaN(b) THEN NaN
    ELSE IF IsInf(a) /\ IsInf(b) THEN (IF a = b THEN a ELSE NaN)
    ELSE IF IsInf(a) THEN a
    ELSE IF IsInf(b) THEN b
    ELSE Q(a[1] * b[2] + b[1] * a[2], a[2] * b[2])

\* float division: x/0 is +-inf, 0/0 and inf/inf are nan, x/inf is 0
QDiv(a, b) == QMul(a, Q(b[2], b[1]))

QSub(a, b) == QAdd(a, QNeg(b))

\* |a| > |b| for finite a, b
QAbsGreater(a, b) == Abs(a[1]) * b[2] > Abs(b[1]) * a[2]

RECURSIVE DotFrom(_, _, _)
DotFrom(v, w, j) ==
    IF j > Len(v) THEN Zero
    ELSE QAdd(QMul(v[j], w[j]), DotFrom(v, w, j + 1))

\* np.dot of two vectors of the same length
QDot(v, w) == DotFrom(v, w, 1)

\* the square of np.linalg.norm(v)
NormSq(v) == QDot(v, v)

----------------------------------------------------------------------------
(* AutoHomotopyTrack.__ker_unit_basis                                      *)

\* scipy.linalg.lu, pivot search of column k: the first row among k..m whose
\* entry in column k has the largest absolute value
PivotRow(A, k) ==
    CHOOSE p \in k..Len(A) :
        /\ \A i \in k..Len(A) : ~QAbsGreater(A[i][k], A[p][k])
        /\ \A i \in k..(p - 1) : QAbsGreater(A[p][k], A[i][k])

SwapRows(A, i, j) ==
    [r \in 1..Len(A) |-> IF r = i THEN A[j] ELSE IF r = j THEN A[i] ELSE A[r]]

\* elimination of column k below the pivot; a zero pivot column is skipped
Eliminate(A, k) ==
    IF A[k][k] = Zero THEN A
    ELSE [r \in 1..Len(A) |->
            IF r <= k THEN A[r]
            ELSE LET f == QDiv(A[r][k], A[k][k])
                 IN  [c \in 1..Len(A[r]) |-> QSub(A[r][c], QMul(f, A[k][c]))]]

RECURSIVE LUFrom(_, _)
LUFrom(A, k) ==
    IF k > Len(A) THEN A
    ELSE LUFrom(Eliminate(SwapRows(A, k, PivotRow(A, k)), k), k + 1)

\* the factor u of  _, __, u = scipy.linalg.lu(mat)
LU_u(mat) == LUFrom(mat, 1)

\* a back substitution that drops the minus sign
RECURSIVE BackSubst_unsigned(_, _, _)
BackSubst_unsigned(u, ker_basis, i) ==
    IF i = 0 THEN ker_basis
    ELSE BackSubst_unsigned(u,
            [ker_basis EXCEPT ![i] = QDiv(QDot(ker_basis, u[i]), u[i][i])],
            i - 1)

\* one pass of  ker_basis[i] = -np.dot(ker_basis, u[i, :]) / u[i, i]
\* for i = i, i-1, .., 1 (the loop runs over reversed(range(n)))
RECURSIVE BackSubst(_, _, _)
BackSubst(u, ker_basis, i) ==
    IF i = 0 THEN ker_basis
    ELSE BackSubst(u,
            [ker_basis EXCEPT ![i] = QDiv(QNeg(QDot(ker_basis, u[i])), u[i][i])],
            i - 1)

\* ker_basis = np.zeros(mat.shape[1]); ker_basis[-1] = 1
PinLast(ncols) == [j \in 1..ncols |-> IF j = ncols THEN One ELSE Zero]

\* ker_basis /= np.linalg.norm(ker_basis)
Normalise(v) == [dir |-> v, nsq |-> NormSq(v)]

\* the static method as a whole: it has no raise statement
ker_unit_basis(mat) ==
    LET u == LU_u(mat)
        v == BackSubst(u, PinLast(Len(mat[1])), Len(mat))
    IN  [called |-> TRUE, raised |-> "none", u |-> u, vec |-> Normalise(v)]

\* component i of a [dir, nsq] vector is dir[i] / sqrt(nsq)
IsUnit(t) ==
    /\ IsFinite(t.nsq) /\ t.nsq # Zero
    /\ \A j \in 1..Len(t.dir) : IsFinite(t.dir[j])
    /\ NormSq(t.dir) = t.nsq

\* M . t = 0 for a finite [dir, nsq] vector t, M a matrix of finite entries
InKernel(M, t) == \A i \in 1..Len(M) : QDot(M[i], t.dir) = Zero

----------------------------------------------------------------------------
(* Points.  A point of the 2-D track is kept as the three quantities the   *)
(* engine reads from it:                                                   *)
(*   lam  its last component point[-1], in tenths                          *)
(*   u    homotopy(point), in units of the corrector's tol                 *)
(*   q    k * (1 - tanh(k * (vo/2 - vi))**2) / 2, from which both partial  *)
(*        derivatives are computed; 0 <= q <= k/2                          *)

\* SchmittTriggerHomotopyTrack(k=10)
K == 10
\* final_param() returns 0.8
FinalParam == 8
\* the tol both criteria are built with (1e-6), the unit of u
Tol == 1
\* ConstantStep(1e-2), the unit of step lengths
StepH == 1
\* q is drawn from 0 .. MaxQ
MaxQ == 2

LamVals == {-FinalParam, FinalParam + 1}
UVals == {0, 1}
QVals == 0..MaxQ

Points == [lam : LamVals, u : UVals, q : QVals]

NoPoint == [lam |-> 0, u |-> 0, q |-> 0]

\* a [dir, nsq] vector times the scalar s in {-1, 0, 1}; the zero vector is
\* kept as zeros over 1
Scale(t, s) ==
    IF s = 0 THEN [dir |-> [j \in 1..Len(t.dir) |-> Zero], nsq |-> One]
    ELSE [dir |-> [j \in 1..Len(t.dir) |-> QMul(t.dir[j], Q(s, 1))], nsq |-> t.nsq]

\* the divisor sqrt(nsq) of a [dir, nsq] vector is a positive number
HasNorm(t) == IsFinite(t.nsq) /\ t.nsq # Zero

\* np.sign(np.dot(a, b)) of two [dir, nsq] vectors with positive divisors
SignDot(a, b) == Sign(QDot(a.dir, b.dir)[1])

----------------------------------------------------------------------------
(* SchmittTriggerHomotopyTrack                                             *)

Schmitt_init(k) ==
    [k |-> k, _prev_tan |-> [dir |-> <<Zero, One>>, nsq |-> One]]

\* np.array([1, -0.8]): f(1, -0.8) = tanh(13) - 1 and 1 - tanh(13)**2 are 0
\* to within 1e-10
Schmitt_initial_point(self) == [lam |-> -8, u |-> 0, q |-> 0]

Schmitt_final_param(self) == FinalParam

Schmitt_homotopy(self, p) == p.u

\* df_dvo = k/2 * (1 - tanh**2) - 1 = q - 1
Schmitt_df_dvo(self, p) == Q(p.q - 1, 1)

\* df_dvi = -k * (1 - tanh**2) = -2q
Schmitt_df_dvi(self, p) == Q(-2 * p.q, 1)

Schmitt_gradient(self, p) == <<Schmitt_df_dvo(self, p), Schmitt_df_dvi(self, p)>>

\* line 21: np.array([-grad[1], grad[0]]) / np.linalg.norm(grad)
Schmitt_perp(grad) ==
    [dir |-> <<QNeg(grad[2]), grad[1]>>, nsq |-> NormSq(grad)]

\* a tangent that is not oriented against the remembered one
Schmitt_tangent_unoriented(self, p) ==
    LET tan == Schmitt_perp(Schmitt_gradient(self, p))
    IN  [self |-> [self EXCEPT !._prev_tan = tan], ret |-> tan]

\* the result: the track with its memory updated, and the tangent returned
Schmitt_tangent(self, p) ==
    LET grad == Schmitt_gradient(self, p)
        tan0 == Schmitt_perp(grad)
        tan == Scale(tan0, SignDot(self._prev_tan, tan0))
    IN  [self |-> [self EXCEPT !._prev_tan = tan], ret |-> tan]

----------------------------------------------------------------------------
(* AutoHomotopyTrack: the instance is its attribute dictionary, holding    *)
(* the four attributes __init__ stores, under the names it stores them.    *)
(* A trace() of this track ends at line 32, so only initial_point and the  *)
(* static kernel extractor are modelled; tangent() names the extractor by  *)
(* a mangled global name and cannot reach it.                              *)

None == [kind |-> "None", len |-> 0]
NdArray(n) == [kind |-> "ndarray", len |-> n]

HasAttr(self, name) == name \in DOMAIN self

Auto_init_tan(init_root, param_range) ==
    LET n == IF init_root.kind = "ndarray" THEN init_root.len ELSE 1
    IN  [j \in 1..n |->
            IF j = n THEN Sign(param_range[2] - param_range[1]) ELSE 0]

\* __init__ stores init_root, not _init_root
Auto_init(homotopy, init_root, init_param, final_param) ==
    [_homotopy |-> homotopy,
     param_range |-> <<init_param, final_param>>,
     init_root |-> init_root,
     _prev_tan |-> Auto_init_tan(init_root, <<init_param, final_param>>)]

\* initial_point reads self._init_root: an attribute the instance does not
\* have raises AttributeError before the test against None is made
Auto_initial_point(self) ==
    IF ~HasAttr(self, "_init_root")
    THEN [raised |-> "AttributeError", ret |-> NoPoint]
    ELSE IF self["_init_root"] = None
    THEN [raised |-> "NotImplementedError", ret |-> NoPoint]
    ELSE [raised |-> "none",
          ret |-> [lam |-> self.param_range[1], u |-> 0, q |-> 0]]

----------------------------------------------------------------------------
(* The convergence criteria                                                *)

Corrector_init(tol, maxiters) ==
    [tol |-> tol, maxiters |-> maxiters, _iter |-> 0]

Corrector_reset(self) == [self EXCEPT !._iter = 0]

Corrector_converged(self, p, trk) ==
    IF self._iter > self.maxiters
    THEN [raised |-> "FailedToConverge: corrector", self |-> self, ret |-> FALSE]
    ELSE [raised |-> "none",
          self |-> [self EXCEPT !._iter = self._iter + 1],
          ret |-> Abs(Schmitt_homotopy(trk, p)) < self.tol]

Tracer_init(tol, maxiters) ==
    [tol |-> tol, maxiters |-> maxiters, _iter |-> 0, sol_arc |-> <<>>]

\* a reset that forgets the counter
Tracer_reset_keeps_iter(self) == [self EXCEPT !.sol_arc = <<>>]

Tracer_reset(self) == [self EXCEPT !._iter = 0, !.sol_arc = <<>>]

Tracer_converged(self, p, trk) ==
    IF self._iter > self.maxiters
    THEN [raised |-> "FailedToConverge: tracer", self |-> self, ret |-> FALSE]
    ELSE [raised |-> "none",
          self |-> [self EXCEPT !._iter = self._iter + 1,
                                !.sol_arc = Append(self.sol_arc, p)],
          ret |-> p.lam > Schmitt_final_param(trk)]

----------------------------------------------------------------------------
(* ConstantStep                                                            *)

ConstantStep_init(h0) == [h |-> h0]

ConstantStep_adjust(self, trk, p) == self

ConstantStep_cur_step_size(self) == self.h

----------------------------------------------------------------------------
(* EulerNewton.  np is the point the arithmetic arrives at when the step   *)
(* taken is not zero; each result lists the track.tangent calls made       *)

\* point + cur_step_size * track.tangent(point)
EulerNewton_predict(adj, trk, p, np) ==
    LET t == Schmitt_tangent(trk, p)
        step == ConstantStep_cur_step_size(adj)
        dlam == step * Sign(t.ret.dir[2][1])
    IN  [trk |-> t.self,
         tangent_calls |-> 1,
         ok |-> /\ (dlam = 0 => np.lam = p.lam)
                /\ (dlam > 0 => np.lam >= p.lam)
                /\ (dlam < 0 => np.lam <= p.lam)
                /\ ((step = 0 \/ NormSq(t.ret.dir) = Zero) => np = p),
         ret |-> np]

\* a corrector that asks the track for its tangent
EulerNewton_correct_tangent(est, trk, np) ==
    [trk |-> Schmitt_tangent(trk, est).self,
     tangent_calls |-> 1,
     ok |-> (Schmitt_homotopy(trk, est) = 0 => np = est),
     ret |-> np]

\* estimate - pinv(J) @ homotopy(estimate): gradient and homotopy are read,
\* tangent is not called
EulerNewton_correct(est, trk, np) ==
    [trk |-> trk,
     tangent_calls |-> 0,
     ok |-> (Schmitt_homotopy(trk, est) = 0 => np = est),
     ret |-> np]

----------------------------------------------------------------------------
(* The outcome of a top-level call, and the history variables              *)

NoSnap == <<>>

Snap == <<tracer, corrector, stepadj, schmitt, auto>>

Running(op) ==
    [op |-> op, outcome |-> "running", err |-> "none", val |-> NoPoint,
     pre |-> NoSnap]

Returned(op, val) ==
    [op |-> op, outcome |-> "returned", err |-> "none", val |-> val,
     pre |-> NoSnap]

Raised(op, err, pre) ==
    [op |-> op, outcome |-> "raised", err |-> err, val |-> NoPoint,
     pre |-> pre]

\* the part of the history that belongs to one trace() call
HistNewTrace(hs, accepted) ==
    [hs EXCEPT !.outer = 0, !.accepted = accepted, !.calls = <<>>,
               !.resets = 0, !.it_tangents = 0, !.adjusted = NoPoint]

HistTracerReset(hs, before) ==
    [hs EXCEPT !.asked = <<>>, !.tr_last = "reset",
               !.tr_rescued = (before._iter > before.maxiters)]

HistTracerConverged(hs, p, r) ==
    [hs EXCEPT !.asked = Append(hs.asked, p),
               !.tr_last = IF r.raised = "none" THEN "ok" ELSE "raised"]

HistCorrectorReset(hs, before) ==
    [hs EXCEPT !.co_last = "reset",
               !.co_rescued = (before._iter > before.maxiters)]

HistCorrectorConverged(hs, r) ==
    [hs EXCEPT !.co_last = IF r.raised = "none" THEN "ok" ELSE "raised"]

HistTangent(hs, before, p) ==
    [hs EXCEPT !.tan_n = TRUE, !.tan_before = before._prev_tan, !.tan_point = p]

Log(hs, call) == [hs EXCEPT !.calls = Append(hs.calls, call)]

----------------------------------------------------------------------------
(* Construction: the driver of schmitt_trigger.py, with the criteria's     *)
(* maxiters and the AutoHomotopyTrack's init_root drawn from small sets    *)

NoKer == [called |-> FALSE, raised |-> "none", u |-> <<>>,
          vec |-> [dir |-> <<>>, nsq |-> Zero]]

InitObjects ==
    /\ \E m \in 0..MaxIters : tracer = Tracer_init(Tol, m)
    /\ \E m \in 0..MaxIters : corrector = Corrector_init(Tol, m)
    /\ stepadj = ConstantStep_init(StepH)
    /\ schmitt = Schmitt_init(K)
    /\ \E r \in {None, NdArray(1)} : auto = Auto_init("H", r, 0, 1)

InitHist ==
    hist = [outer |-> 0, accepted |-> <<>>, calls |-> <<>>, resets |-> 0,
            it_tangents |-> 0, adjusted |-> NoPoint, asked |-> <<>>,
            tr_last |-> "new", tr_rescued |-> FALSE,
            co_last |-> "new", co_rescued |-> FALSE,
            tan_n |-> FALSE, tan_before |-> Schmitt_init(K)._prev_tan,
            tan_point |-> NoPoint]

Init ==
    /\ pc = "idle" /\ track = "schmitt"
    /\ point = NoPoint /\ estimate = NoPoint
    /\ last = Running("none")
    /\ InitObjects /\ InitHist
    /\ ker_mat = <<>> /\ ker_out = NoKer

kerVars == <<ker_mat, ker_out>>
locals == <<track, point, estimate>>

----------------------------------------------------------------------------
(* PredictorCorrectorMethod.trace, one action per statement                *)

\* the interface method, which a track without a starting point inherits
HomotopyTrack_initial_point(self) ==
    [raised |-> "NotImplementedError", ret |-> NoPoint]

\* track.initial_point() of the three kinds of track
Track_initial_point(trk) ==
    IF trk = "auto" THEN Auto_initial_point(auto)
    ELSE IF trk = "base" THEN HomotopyTrack_initial_point(trk)
    ELSE [raised |-> "none", ret |-> Schmitt_initial_point(schmitt)]

\* line 32: point = track.initial_point()
Trace_l32(trk) ==
    /\ pc = "idle"
    /\ LET r == Track_initial_point(trk)
       IN  IF r.raised # "none"
           THEN /\ last' = Raised("trace", r.raised, Snap)
                /\ hist' = HistNewTrace(hist, <<>>)
                /\ track' = trk
                /\ UNCHANGED <<pc, point, estimate>>
           ELSE /\ last' = Running("trace")
                /\ hist' = HistNewTrace(hist, <<r.ret>>)
                /\ track' = trk
                /\ point' = r.ret
                /\ pc' = "l33"
                /\ UNCHANGED estimate
    /\ UNCHANGED <<tracer, corrector, stepadj, schmitt, auto, kerVars>>

\* line 33: self.trace_conv_criterion.reset()
Trace_l33 ==
    /\ pc = "l33"
    /\ tracer' = Tracer_reset(tracer)
    /\ hist' = [HistTracerReset(hist, tracer) EXCEPT !.resets = @ + 1]
    /\ pc' = "l34"
    /\ UNCHANGED <<locals, last, corrector, stepadj, schmitt, auto, kerVars>>

\* line 34: while not self.trace_conv_criterion.converged(point, track)
\* and, when the loop ends, line 41: return point
Trace_l34 ==
    /\ pc = "l34"
    /\ LET r == Tracer_converged(tracer, point, schmitt)
           hs == HistTracerConverged(hist, point, r)
       IN  /\ tracer' = r.self
           /\ IF r.raised # "none"
              THEN /\ last' = Raised("trace", r.raised, NoSnap)
                   /\ pc' = "idle"
                   /\ hist' = hs
              ELSE IF r.ret
              THEN /\ last' = Returned("trace", point)
                   /\ pc' = "idle"
                   /\ hist' = hs
              ELSE /\ pc' = "l35"
                   /\ hist' = [hs EXCEPT !.outer = @ + 1, !.calls = <<>>,
                                         !.it_tangents = 0]
                   /\ UNCHANGED last
    /\ UNCHANGED <<locals, corrector, stepadj, schmitt, auto, kerVars>>

\* line 35: estimate = self.predict(track, point)
Trace_l35 ==
    /\ pc = "l35"
    /\ \E np \in Points :
        LET r == EulerNewton_predict(stepadj, schmitt, point, np)
        IN  /\ r.ok
            /\ estimate' = r.ret
            /\ schmitt' = r.trk
            /\ hist' = [Log(HistTangent(hist, schmitt, point), "predict")
                          EXCEPT !.it_tangents = @ + r.tangent_calls]
    /\ pc' = "l36"
    /\ UNCHANGED <<track, point, last, tracer, corrector, stepadj, auto, kerVars>>

\* line 36: self.corrector_conv_criterion.reset()
Trace_l36 ==
    /\ pc = "l36"
    /\ corrector' = Corrector_reset(corrector)
    /\ hist' = Log(HistCorrectorReset(hist, corrector), "co.reset")
    /\ pc' = "l37"
    /\ UNCHANGED <<locals, last, tracer, stepadj, schmitt, auto, kerVars>>

\* line 37: while not self.corrector_conv_criterion.converged(estimate, track)
Trace_l37 ==
    /\ pc = "l37"
    /\ LET r == Corrector_converged(corrector, estimate, schmitt)
           hs == HistCorrectorConverged(hist, r)
       IN  /\ corrector' = r.self
           /\ IF r.raised # "none"
              THEN /\ last' = Raised("trace", r.raised, NoSnap)
                   /\ pc' = "idle"
                   /\ hist' = hs
              ELSE IF r.ret
              THEN /\ pc' = "l39"
                   /\ hist' = [Log(hs, "co.check.T")
                                 EXCEPT !.accepted = Append(@, estimate)]
                   /\ UNCHANGED last
              ELSE /\ pc' = "l38"
                   /\ hist' = Log(hs, "co.check.F")
                   /\ UNCHANGED last
    /\ UNCHANGED <<locals, tracer, stepadj, schmitt, auto, kerVars>>

\* line 38: estimate = self.correct(estimate, track)
Trace_l38 ==
    /\ pc = "l38"
    /\ \E np \in Points :
        LET r == EulerNewton_correct(estimate, schmitt, np)
        IN  /\ r.ok
            /\ estimate' = r.ret
            /\ schmitt' = r.trk
            /\ hist' = [Log(hist, "correct")
                          EXCEPT !.it_tangents = @ + r.tangent_calls]
    /\ pc' = "l37"
    /\ UNCHANGED <<track, point, last, tracer, corrector, stepadj, auto, kerVars>>

\* lines 39-40: point = estimate; self.step_adjuster.adjust(track, point)
Trace_l39 ==
    /\ pc = "l39"
    /\ point' = estimate
    /\ stepadj' = ConstantStep_adjust(stepadj, schmitt, point')
    /\ hist' = [Log(hist, "adjust") EXCEPT !.adjusted = point']
    /\ pc' = "l34"
    /\ UNCHANGED <<track, estimate, last, tracer, corrector, schmitt, auto, kerVars>>

----------------------------------------------------------------------------
(* The objects are also used directly by the caller between traces        *)

IdleHist(hs) == HistNewTrace(hs, <<>>)

CallTracerReset ==
    /\ pc = "idle"
    /\ tracer' = Tracer_reset(tracer)
    /\ hist' = IdleHist(HistTracerReset(hist, tracer))
    /\ last' = Returned("tracer.reset", NoPoint)
    /\ UNCHANGED <<pc, locals, corrector, stepadj, schmitt, auto, kerVars>>

CallTracerConverged(p) ==
    /\ pc = "idle"
    /\ Len(hist.asked) <= MaxIters + 1
    /\ LET r == Tracer_converged(tracer, p, schmitt)
       IN  /\ tracer' = r.self
           /\ hist' = IdleHist(HistTracerConverged(hist, p, r))
           /\ last' = IF r.raised = "none"
                      THEN Returned("tracer.converged", NoPoint)
                      ELSE Raised("tracer.converged", r.raised, NoSnap)
    /\ UNCHANGED <<pc, locals, corrector, stepadj, schmitt, auto, kerVars>>

CallCorrectorReset ==
    /\ pc = "idle"
    /\ corrector' = Corrector_reset(corrector)
    /\ hist' = IdleHist(HistCorrectorReset(hist, corrector))
    /\ last' = Returned("corrector.reset", NoPoint)
    /\ UNCHANGED <<pc, locals, tracer, stepadj, schmitt, auto, kerVars>>

CallCorrectorConverged(p) ==
    /\ pc = "idle"
    /\ LET r == Corrector_converged(corrector, p, schmitt)
       IN  /\ corrector' = r.self
           /\ hist' = IdleHist(HistCorrectorConverged(hist, r))
           /\ last' = IF r.raised = "none"
                      THEN Returned("corrector.converged", NoPoint)
                      ELSE Raised("corrector.converged", r.raised, NoSnap)
    /\ UNCHANGED <<pc, locals, tracer, stepadj, schmitt, auto, kerVars>>

CallTangent(p) ==
    /\ pc = "idle"
    /\ LET r == Schmitt_tangent(schmitt, p)
       IN  /\ schmitt' = r.self
           /\ hist' = IdleHist(HistTangent(hist, schmitt, p))
           /\ last' = Returned("tangent", NoPoint)
    /\ UNCHANGED <<pc, locals, tracer, corrector, stepadj, auto, kerVars>>

Next ==
    \/ \E trk \in {"schmitt", "auto", "base"} : Trace_l32(trk)
    \/ Trace_l33
    \/ Trace_l34
    \/ Trace_l35
    \/ Trace_l36
    \/ Trace_l37
    \/ Trace_l38
    \/ Trace_l39

\* trace() called any number of times on the same objects
Spec == Init /\ [][Next]_vars

\* the criteria read lam and u of a point only
CritPoints == {p \in Points : p.q = 0}

NextCrit ==
    \/ CallTracerReset
    \/ \E p \in CritPoints : CallTracerConverged(p)
    \/ CallCorrectorReset
    \/ \E p \in CritPoints : CallCorrectorConverged(p)

\* the two criteria used directly, by any sequence of calls
SpecCrit == Init /\ [][NextCrit]_vars

NextTan == \E p \in Points : CallTangent(p)

\* tangent() called at any sequence of points
SpecTan == Init /\ [][NextTan]_vars

----------------------------------------------------------------------------
(* The kernel extractor applied to every small integer Jacobian            *)

Entries == (-MaxEntry)..MaxEntry

Jacobians ==
    UNION {[1..n -> [1..(n + 1) -> Entries]] : n \in Dims}

\* the float64 array of an integer matrix
QMat(M) == [i \in 1..Len(M) |-> [j \in 1..Len(M[i]) |-> Q(M[i][j], 1)]]

InitKer ==
    /\ pc = "idle" /\ track = "auto"
    /\ point = NoPoint /\ estimate = NoPoint
    /\ last = Running("none")
    /\ tracer = Tracer_init(Tol, 0)
    /\ corrector = Corrector_init(Tol, 0)
    /\ stepadj = ConstantStep_init(StepH)
    /\ schmitt = Schmitt_init(K)
    /\ auto = Auto_init("H", None, 0, 1)
    /\ InitHist
    /\ ker_mat \in Jacobians
    /\ ker_out = NoKer

CallKerUnitBasis ==
    /\ ~ker_out.called
    /\ ker_out' = ker_unit_basis(QMat(ker_mat))
    /\ UNCHANGED <<pc, locals, last, tracer, corrector, stepadj, schmitt,
                   auto, hist, ker_mat>>

NextKer == CallKerUnitBasis

SpecKer == InitKer /\ [][NextKer]_vars

ZeroPivot(u) == \E i \in 1..Len(u) : u[i][i] = Zero

\* C6: a Jacobian whose factor U has a zero on its diagonal makes the kernel
\* extractor fail with SingularJacobian; it never returns a vector
C6_SingularRaises ==
    (ker_out.called /\ ZeroPivot(ker_out.u))
        => ker_out.raised = "SingularJacobian"

\* what the extractor does instead: it returns, and the vector it returns has
\* a nan component
C6_ReturnsNonFinite ==
    (ker_out.called /\ ZeroPivot(ker_out.u))
        => /\ ker_out.raised = "none"
           /\ ~IsUnit(ker_out.vec)

\* C7: for a Jacobian whose factor U has a nonzero diagonal, the vector
\* returned has unit norm and lies in the kernel of U and of J
C7_UnitKernelVector ==
    (ker_out.called /\ ~ZeroPivot(ker_out.u))
        => /\ ker_out.raised = "none"
           /\ IsUnit(ker_out.vec)
           /\ InKernel(ker_out.u, ker_out.vec)
           /\ InKernel(QMat(ker_mat), ker_out.vec)

\* a 2 x 3 Jacobian whose rows were swapped by the pivot search and whose
\* kernel vector has no zero component
C7_Witness ==
    /\ ker_out.called /\ ~ZeroPivot(ker_out.u)
    /\ Len(ker_mat) = 2
    /\ PivotRow(QMat(ker_mat), 1) = 2
    /\ \A j \in 1..3 : ker_out.vec.dir[j] # Zero

----------------------------------------------------------------------------
(* Properties of trace()                                                   *)

Last(q) == q[Len(q)]

TraceEnded == pc = "idle" /\ last.op = "trace"

FailedToConverge == {"FailedToConverge: tracer", "FailedToConverge: corrector"}

\* C1: a trace whose tracer criterion has maxiters = K has run at most K
\* outer iterations when it returns or when the tracer criterion raises
\* FailedToConverge
C1_AtMostKIterations ==
    (TraceEnded /\ (last.outcome = "returned"
                    \/ last.err = "FailedToConverge: tracer"))
        => hist.outer <= tracer.maxiters

\* what the code guarantees: the test  _iter > maxiters  lets K + 1 calls
\* of converged() through, so K + 1 outer iterations can run, and do run
\* before the tracer criterion raises
C1_AtMostKPlusOne ==
    /\ hist.outer <= tracer.maxiters + 1
    /\ (TraceEnded /\ last.err = "FailedToConverge: tracer")
        => hist.outer = tracer.maxiters + 1

\* C2: when trace() ends with FailedToConverge, the arc holds every point
\* accepted before the failure: the initial point, then each estimate the
\* corrector criterion converged on, in order
C2_ArcHoldsAccepted ==
    (TraceEnded /\ last.outcome = "raised" /\ last.err \in FailedToConverge)
        => tracer.sol_arc = hist.accepted

\* what the code guarantees: the arc lacks at most the last accepted point,
\* and lacks it exactly when the tracer criterion raised
C2_ArcLacksLastOnTracerFailure ==
    (TraceEnded /\ last.outcome = "raised" /\ last.err \in FailedToConverge)
        => IF last.err = "FailedToConverge: tracer"
           THEN hist.accepted = Append(tracer.sol_arc, point)
           ELSE tracer.sol_arc = hist.accepted

\* C3: the arc is exactly the sequence of points passed to converged() since
\* the last reset(), and when trace() returns the arc starts with the initial
\* point and ends with the point returned
C3_ArcIsEveryPointAsked ==
    /\ tracer.sol_arc = hist.asked
    /\ (TraceEnded /\ last.outcome = "returned")
        => /\ tracer.sol_arc[1] = Schmitt_initial_point(schmitt)
           /\ Last(tracer.sol_arc) = last.val

\* what the code guarantees: a call of converged() that raises appends nothing
C3_ArcIsEveryPointAnswered ==
    /\ Len(tracer.sol_arc) <= Len(hist.asked)
    /\ tracer.sol_arc = SubSeq(hist.asked, 1, Len(tracer.sol_arc))
    /\ hist.tr_last # "raised" => tracer.sol_arc = hist.asked
    /\ (TraceEnded /\ last.outcome = "returned")
        => /\ tracer.sol_arc[1] = Schmitt_initial_point(schmitt)
           /\ Last(tracer.sol_arc) = last.val

C8_InitialPointErrorPropagates ==
    (TraceEnded /\ track \in {"auto", "base"})
        => /\ last.outcome = "raised"
           /\ last.err = IF track = "auto" THEN "AttributeError"
                         ELSE "NotImplementedError"
           /\ last.pre = Snap
           /\ hist.resets = 0 /\ hist.calls = <<>>

RECURSIVE Corrections(_)
Corrections(c) ==
    IF c = 0 THEN <<>> ELSE Corrections(c - 1) \o <<"co.check.F", "correct">>

\* the calls of an outer iteration in which correct has run c times
Iteration(c) == <<"predict", "co.reset">> \o Corrections(c)

InLoop == pc \in {"l36", "l37", "l38", "l39"} \/ (pc = "l34" /\ hist.outer > 0)

\* C10: the order of calls in trace(): one tracer reset, a tracer check on
\* the current point before each outer iteration, then one predict with one
\* tangent call, one corrector reset, a corrector check before every correct,
\* one adjust on the accepted estimate; the track's memory is written once
C10_CallOrder ==
    /\ pc = "l33" => hist.resets = 0
    /\ pc \in {"l34", "l35", "l36", "l37", "l38", "l39"}
        => /\ hist.resets = 1
           /\ tracer._iter = hist.outer
    /\ pc = "l34" /\ hist.outer = 0 => hist.calls = <<>>
    /\ (TraceEnded /\ last.outcome = "returned" /\ hist.outer = 0)
        => /\ hist.calls = <<>>
           /\ last.val = Schmitt_initial_point(schmitt)
    /\ pc = "l35"
        => /\ hist.calls = <<>> /\ hist.it_tangents = 0
           /\ Last(tracer.sol_arc) = point
    /\ pc = "l36" => hist.calls = <<"predict">>
    /\ pc = "l37"
        => \E c \in 0..(corrector.maxiters + 1) :
            /\ hist.calls = Iteration(c)
            /\ corrector._iter = c
    /\ pc = "l38"
        => \E c \in 0..corrector.maxiters :
            /\ hist.calls = Iteration(c) \o <<"co.check.F">>
            /\ corrector._iter = c + 1
    /\ pc = "l39"
        => \E c \in 0..corrector.maxiters :
            /\ hist.calls = Iteration(c) \o <<"co.check.T">>
            /\ corrector._iter = c + 1
            /\ Last(hist.accepted) = estimate
    /\ pc = "l34" /\ hist.outer > 0
        => \E c \in 0..corrector.maxiters :
            /\ hist.calls = Iteration(c) \o <<"co.check.T", "adjust">>
            /\ hist.adjusted = Last(hist.accepted)
            /\ point = hist.adjusted
    /\ InLoop
        => /\ hist.it_tangents = 1
           /\ schmitt._prev_tan =
                Schmitt_tangent([schmitt EXCEPT !._prev_tan = hist.tan_before],
                                hist.tan_point).ret
           /\ pc # "l34" => hist.tan_point = point

\* an outer iteration that is not the first one of its trace, in which
\* correct ran, ended
C10_Witness ==
    /\ pc = "l34" /\ hist.outer = 2
    /\ hist.calls = Iteration(1) \o <<"co.check.T", "adjust">>

----------------------------------------------------------------------------
(* Properties of the criteria used directly                                *)

\* C4: for maxiters >= 0 and whatever was called before, right after reset()
\* the counter is cleared, so that the next converged() does not raise, and
\* the tracer's arc is empty
C4_ResetClears ==
    /\ hist.tr_last = "reset"
        => /\ tracer._iter = 0
           /\ tracer.sol_arc = <<>>
           /\ \A p \in CritPoints :
                Tracer_converged(tracer, p, schmitt).raised = "none"
    /\ hist.co_last = "reset"
        => /\ corrector._iter = 0
           /\ \A p \in CritPoints :
                Corrector_converged(corrector, p, schmitt).raised = "none"
    /\ Len(hist.asked) = 1 => (hist.tr_last = "ok" /\ tracer._iter = 1)

\* both criteria have just been reset in a state in which their next
\* converged() would have raised
C4_Witness ==
    /\ hist.tr_last = "reset" /\ hist.tr_rescued
    /\ hist.co_last = "reset" /\ hist.co_rescued

----------------------------------------------------------------------------
(* Properties of tangent()                                                 *)

\* C5: every tangent returned, and so the remembered one, is a unit vector
C5_TangentIsUnit == hist.tan_n => IsUnit(schmitt._prev_tan)

\* what the code guarantees: the tangent is a unit vector or the zero vector
C5_TangentIsUnitOrZero ==
    hist.tan_n
        => \/ IsUnit(schmitt._prev_tan)
           \/ NormSq(schmitt._prev_tan.dir) = Zero

\* C9: the dot product of a tangent with the one computed before it by the
\* same track (the initial memory, for the first) is >= 0
C9_Orientation ==
    hist.tan_n
        => /\ HasNorm(schmitt._prev_tan) /\ HasNorm(hist.tan_before)
           /\ SignDot(schmitt._prev_tan, hist.tan_before) >= 0

\* the perpendicular of the gradient pointed against the remembered tangent
\* and was turned around
C9_Witness ==
    /\ hist.tan_n
    /\ SignDot(hist.tan_before,
               Schmitt_perp(Schmitt_gradient(schmitt, hist.tan_point))) < 0
    /\ SignDot(schmitt._prev_tan, hist.tan_before) > 0

====
